---- MODULE Spec2Model ----
(***************************************************************************)
(* Model of the MapExplorer component (src/components/MapExplorer.jsx):    *)
(* the two-click rectangle selection, the asynchronous NDVI sampling run   *)
(* (processSelectionNdvi), the AI verification call (handleAnalyze) and    *)
(* the pure helpers they use.                                              *)
(*                                                                         *)
(* One action of the model is one JavaScript task: an event handler, or    *)
(* the continuation of an async function after an await, run to its next   *)
(* await or to its end.  React state setters called inside one task are    *)
(* applied together with it.                                               *)
(***************************************************************************)
EXTENDS Integers, Sequences, FiniteSets, TLC

VARIABLES
    isProcessing,        \* useState(false), line 63
    result,              \* useState(null), line 64
    computedStats,       \* useState(null), line 65
    selectionStart,      \* useState(null) + selectionStartRef, lines 66, 78
    selectionEnd,        \* useState(null) + selectionEndRef, lines 67, 79
    selectedBounds,      \* useState(null), line 68
    landClassification,  \* useState(null), line 69
    processedImageRef,   \* useRef(null), line 77
    runs,                \* the invocations of processSelectionNdvi suspended at an await
    analyses,            \* the invocations of handleAnalyze suspended at their await
    nextRunId,           \* history: number of sampling runs started so far, plus one
    currentRun,          \* history: id of the run started for the current selectedBounds
    lastRun,             \* history: the run whose end wrote the displayed outputs
    resultFrom,          \* history: the arguments of the AI call that returned result
    arg,                 \* argument of a pure function under test
    ret                  \* value it returned

\* the component, and the harness that applies one pure function to one input
component == <<isProcessing, result, computedStats, selectionStart, selectionEnd,
               selectedBounds, landClassification, processedImageRef,
               runs, analyses, nextRunId, currentRun, lastRun, resultFrom>>
harness == <<arg, ret>>
vars == <<component, harness>>

----------------------------------------------------------------------------
(* Bounds of the model *)

\* clicks land on the grid {0, 2, ..., 2 * MaxLat} x {0, 2, ..., 2 * MaxLng}
MaxLat == 1
MaxLng == 1
\* handleAnalyze calls that may be suspended at the same time
MaxAnalyses == 1
\* sampling runs started in one behaviour
MaxStarts == 2
\* the limiter is applied to the tiles of grids of up to MaxGridW x MaxGridH tiles
MaxGridW == 6
MaxGridH == 6
\* the tile enumerator is applied to rectangles over the tiles 0..MaxTile
MaxTile == 2
\* significant bits of a number
Precision == 3
\* the statistics aggregator is applied to sequences of up to MaxSamples values
MaxSamples == 3
\* the classifier is applied to the statistics of up to MaxMix values
MaxMix == 8

(* Program constants *)

MAX_SELECTION_TILES == 12

\* a JavaScript null
Null == << >>

Min(a, b) == IF a <= b THEN a ELSE b
Max(a, b) == IF a >= b THEN a ELSE b

\* Math.floor(a / b) and Math.ceil(a / b) for b > 0
FloorDiv(a, b) == a \div b
CeilDiv(a, b) == (a + b - 1) \div b

----------------------------------------------------------------------------
(* The map widget: click points, projection, tiles *)

\* coordinates are even, so that the centre of two clicks is again an integer
Lats == {2 * i : i \in 0..MaxLat}
Lngs == {2 * i : i \in 0..MaxLng}
\* event.latlng of a click, as [lat, lng]
Points == Lats \X Lngs

\* map.getZoom() after loadPreset's flyTo
MapZoom == 14
\* tileLayer.getTileSize()
TileSize == 256
\* map.project: pixels per coordinate unit (x grows eastwards, y southwards)
PixelsPerUnit == 64
LatTop == 2 * (MaxLat + 1)
Project(latlng, zoom) ==
    [x |-> latlng[2] * PixelsPerUnit, y |-> (LatTop - latlng[1]) * PixelsPerUnit]

LatLngBoundsAsGiven(a, b) ==
    [south |-> a[1], north |-> b[1], west |-> a[2], east |-> b[2]]

\* L.latLngBounds(a, b): the normalized rectangle of two corners
LatLngBounds(a, b) ==
    [south |-> Min(a[1], b[1]), north |-> Max(a[1], b[1]),
     west  |-> Min(a[2], b[2]), east  |-> Max(a[2], b[2])]

toBoundsPayload(bounds) ==
    [northWest |-> <<bounds.north, bounds.west>>,
     northEast |-> <<bounds.north, bounds.east>>,
     southWest |-> <<bounds.south, bounds.west>>,
     southEast |-> <<bounds.south, bounds.east>>,
     center    |-> <<(bounds.south + bounds.north) \div 2,
                     (bounds.west + bounds.east) \div 2>>]

TileGridHalfOpen(xMin, xMax, yMin, yMax, zoom) ==
    LET h == yMax - yMin
        w == xMax - xMin
    IN  IF w <= 0 \/ h <= 0 THEN << >>
        ELSE [i \in 1..(w * h) |->
                [x |-> xMin + ((i - 1) \div h), y |-> yMin + ((i - 1) % h), z |-> zoom]]

\* the two nested loops of getTileCoordinatesForBounds: x outer, y inner
TileGrid(xMin, xMax, yMin, yMax, zoom) ==
    LET h == yMax - yMin + 1
        w == xMax - xMin + 1
    IN  IF w <= 0 \/ h <= 0 THEN << >>
        ELSE [i \in 1..(w * h) |->
                [x |-> xMin + ((i - 1) \div h), y |-> yMin + ((i - 1) % h), z |-> zoom]]

\* getTileCoordinatesForBounds, given the two projected corners and the tile size
TilesForPoints(nwPoint, sePoint, tileSize, zoom) ==
    LET xMin == FloorDiv(Min(nwPoint.x, sePoint.x), tileSize.x)
        xMax == FloorDiv(Max(nwPoint.x, sePoint.x), tileSize.x)
        yMin == FloorDiv(Min(nwPoint.y, sePoint.y), tileSize.y)
        yMax == FloorDiv(Max(nwPoint.y, sePoint.y), tileSize.y)
    IN  TileGrid(xMin, xMax, yMin, yMax, zoom)

getTileCoordinatesForBounds(bounds, zoom) ==
    TilesForPoints(Project(<<bounds.north, bounds.west>>, zoom),
                   Project(<<bounds.south, bounds.east>>, zoom),
                   [x |-> TileSize, y |-> TileSize], zoom)

----------------------------------------------------------------------------
(* Sampling limiter *)

StrideFloor(len) == Max(1, FloorDiv(len, MAX_SELECTION_TILES))

\* Math.ceil(tileCoords.length / MAX_SELECTION_TILES)
Stride(len) == CeilDiv(len, MAX_SELECTION_TILES)

\* tileCoords.filter((_, idx) => idx % stride === 0), idx counted from 0
RECURSIVE FilterByStride(_, _, _)
FilterByStride(tileCoords, stride, idx) ==
    IF idx >= Len(tileCoords) THEN << >>
    ELSE IF idx % stride = 0
         THEN <<tileCoords[idx + 1]>> \o FilterByStride(tileCoords, stride, idx + 1)
         ELSE FilterByStride(tileCoords, stride, idx + 1)

\* Array.prototype.slice(0, n)
Slice0(s, n) == SubSeq(s, 1, Min(n, Len(s)))

limitTilesForProcessing(tileCoords) ==
    IF Len(tileCoords) <= MAX_SELECTION_TILES THEN tileCoords
    ELSE Slice0(FilterByStride(tileCoords, Stride(Len(tileCoords)), 0),
                MAX_SELECTION_TILES)

----------------------------------------------------------------------------
(* Tile sampler: the proxy values of one tile *)

\* a ProxyValue v in [-1, 1] is held as the integer v * ValueScale; the
\* scale is a power of two, so that scaling commutes with rounding
ValueScale == 8

\* extractNdviValuesFromImage for the image of one tile.  The imagery is a
\* fixed function of the tile address; west tiles are vegetated, east bare.
TileValues(coords) ==
    IF coords.x = 0 THEN <<6 - coords.y, 4>>
    ELSE <<1 - coords.x, (0 - 2) * coords.y>>

----------------------------------------------------------------------------
(* JavaScript numbers *)

\* A Number is a binary floating-point value, rounded to nearest (ties to
\* even) after every arithmetic operation.  The model keeps Precision
\* significant bits where the language keeps 53, and no exponent limits.  A
\* number is the fraction num / den, den a power of two, in lowest terms.
Zero == [num |-> 0, den |-> 1]

Abs(a) == IF a < 0 THEN 0 - a ELSE a
Sign(a) == IF a < 0 THEN 0 - 1 ELSE 1

RECURSIVE Pow2(_)
Pow2(k) == IF k <= 0 THEN 1 ELSE 2 * Pow2(k - 1)

\* num / den in lowest terms
RECURSIVE Reduce(_, _)
Reduce(num, den) ==
    IF num = 0 THEN Zero
    ELSE IF num % 2 = 0 /\ den % 2 = 0 THEN Reduce(num \div 2, den \div 2)
    ELSE [num |-> num, den |-> den]

\* a / d rounded to the nearest integer, ties to even (a >= 0, d > 0)
RoundHalfEven(a, d) ==
    LET q == a \div d
        r == a % d
    IN  IF 2 * r > d \/ (2 * r = d /\ q % 2 = 1) THEN q + 1 ELSE q

\* the k with 2^(Precision - 1) <= (a / d) * 2^k < 2^Precision (a > 0, d > 0)
RECURSIVE Exponent(_, _)
Exponent(a, d) ==
    IF a < Pow2(Precision - 1) * d THEN Exponent(2 * a, d) + 1
    ELSE IF a >= Pow2(Precision) * d THEN Exponent(a, 2 * d) - 1
    ELSE 0

\* the significand m of a / d at exponent k, as the number m / 2^k
Rounded(sign, a, d, k) ==
    Reduce(sign * RoundHalfEven(a * Pow2(k), d * Pow2(0 - k)) * Pow2(0 - k), Pow2(k))

\* the Number nearest to the fraction num / den (den > 0)
Fl(num, den) ==
    IF num = 0 THEN Zero
    ELSE CHOOSE x \in {Rounded(Sign(num), Abs(num), den, k) :
                         k \in {Exponent(Abs(num), den)}} : TRUE

\* x + y, x - y, x * y, x / n
FlAdd(x, y) ==
    LET den == Max(x.den, y.den)
    IN  Fl(x.num * (den \div x.den) + y.num * (den \div y.den), den)
FlSub(x, y) == FlAdd(x, [num |-> 0 - y.num, den |-> y.den])
FlMul(x, y) == Fl(x.num * y.num, x.den * y.den)
FlDiv(x, n) == Fl(x.num, x.den * n)

\* the largest r with r * r <= square (the argument is evaluated once)
ISqrt(square) ==
    CHOOSE r \in UNION {{q \in 0..n : q * q <= n /\ (q + 1) * (q + 1) > n} :
                          n \in {square}} : TRUE

\* the k with 4^(Precision - 1) <= (a / d) * 4^k < 4^Precision (a > 0, d > 0)
RECURSIVE SqrtExponent(_, _)
SqrtExponent(a, d) ==
    IF a < Pow2(2 * Precision - 2) * d THEN SqrtExponent(4 * a, d) + 1
    ELSE IF a >= Pow2(2 * Precision) * d THEN SqrtExponent(a, 4 * d) - 1
    ELSE 0

\* sqrt(a / d) rounded to nearest, with 4^(Precision - 1) <= a / d < 4^Precision
SqrtSignificand(a, d) ==
    LET t == ISqrt(a \div d)
        half == (4 * t * t + 4 * t + 1) * d
    IN  IF 4 * a > half \/ (4 * a = half /\ t % 2 = 1) THEN t + 1 ELSE t

\* Math.sqrt(x) for x >= 0
FlSqrt(x) ==
    IF x.num = 0 THEN Zero
    ELSE CHOOSE r \in
           {Reduce(SqrtSignificand(x.num * Pow2(2 * k), x.den * Pow2((0 - 2) * k))
                     * Pow2(0 - k), Pow2(k)) :
              k \in {SqrtExponent(x.num, x.den)}} : TRUE

\* x <= y
FlLeq(x, y) == x.num * y.den <= y.num * x.den

\* the Number of a scaled proxy value
Number(value) == Reduce(value, 1)

----------------------------------------------------------------------------
(* Statistics aggregator *)

\* the result of the loop `if (value < min) min = value` started at `start`
MinFrom(s, start) ==
    LET seen == {s[i] : i \in 1..Len(s)} \cup {start}
    IN  CHOOSE min \in seen : \A value \in seen : min <= value

\* the result of the loop `if (value > max) max = value` started at `start`
MaxFrom(s, start) ==
    LET seen == {s[i] : i \in 1..Len(s)} \cup {start}
    IN  CHOOSE max \in seen : \A value \in seen : max >= value

\* the loop `sum += value` over values[1..k]; each partial sum is evaluated once
RECURSIVE SumTo(_, _)
SumTo(values, k) ==
    IF k = 0 THEN Zero
    ELSE CHOOSE sum \in {FlAdd(acc, Number(values[k])) : acc \in {SumTo(values, k - 1)}} :
            TRUE

\* (value - mean) ** 2
SqDiffOf(value, mean) ==
    CHOOSE sq \in {FlMul(diff, diff) : diff \in {FlSub(Number(value), mean)}} : TRUE

\* the loop `sqDiff += (value - mean) ** 2` over values[1..k]
RECURSIVE SqDiffTo(_, _, _)
SqDiffTo(values, k, mean) ==
    IF k = 0 THEN Zero
    ELSE CHOOSE sqDiff \in
           {FlAdd(acc, sq) : acc \in {SqDiffTo(values, k - 1, mean)},
                             sq \in {SqDiffOf(values[k], mean)}} : TRUE

\* Math.sqrt(sqDiff / values.length)
StdDevOf(values, mean) ==
    CHOOSE stdDev \in
      {FlSqrt(variance) :
         variance \in {FlDiv(sqDiff, Len(values)) :
                         sqDiff \in {SqDiffTo(values, Len(values), mean)}}} : TRUE

\* Math.min(9, Math.floor(((value + 1) / 2) * 10))
BinIdx(value) == Min(9, FloorDiv((value + ValueScale) * 10, 2 * ValueScale))

\* the statistics of a non-empty sequence with the given mean.  min and max
\* are scaled values, mean and stdDev Numbers in units of 1 / ValueScale; bin
\* is the bucket's lower bound in tenths.
StatsOf(values, mean) ==
    [min |-> MinFrom(values, ValueScale),
     max |-> MaxFrom(values, 0 - ValueScale),
     mean |-> mean,
     stdDev |-> StdDevOf(values, mean),
     histogram |-> [k \in 1..10 |->
                      [bin |-> (0 - 10) + (k - 1) * 2,
                       count |-> Cardinality({i \in 1..Len(values) :
                                                BinIdx(values[i]) = k - 1})]]]

\* values is a sequence of scaled proxy values
calculateStats(values) ==
    IF Len(values) = 0
    THEN [min |-> 0, max |-> 0, mean |-> Zero, stdDev |-> Zero, histogram |-> << >>]
    ELSE CHOOSE stats \in
           {StatsOf(v, mean) :
              v \in {values},
              mean \in {FlDiv(sum, Len(values)) : sum \in {SumTo(values, Len(values))}}} :
            TRUE

----------------------------------------------------------------------------
(* Land classifier *)

\* histogram.reduce((acc, entry) => acc + entry.count, 0) over the first k entries
RECURSIVE CountsTo(_, _)
CountsTo(histogram, k) ==
    IF k = 0 THEN 0 ELSE CountsTo(histogram, k - 1) + histogram[k].count

CountFromOne(stats, index) == stats.histogram[Max(1, index)].count

\* stats.histogram[index].count, index counted from 0
Count(stats, index) == stats.histogram[index + 1].count

\* stats.mean >= hundredths / 100 and stats.mean < hundredths / 100
MeanAtLeast(stats, hundredths) ==
    stats.mean.num * 100 >= hundredths * ValueScale * stats.mean.den
MeanBelow(stats, hundredths) == ~MeanAtLeast(stats, hundredths)

\* Math.round(base + share * factorTenths / 10), where share = (part / total) * 100
RoundShare(base, part, total, factorTenths) ==
    FloorDiv(2 * (base * total + part * 10 * factorTenths) + total, 2 * total)

classifyLandByNdvi(stats) ==
    IF stats = Null \/ Len(stats.histogram) = 0 THEN Null
    ELSE
        LET sum == CountsTo(stats.histogram, Len(stats.histogram))
            total == IF sum = 0 THEN 1 ELSE sum
            \* the three shares are percentages: (part / total) * 100
            highPart == Count(stats, 7) + Count(stats, 8) + Count(stats, 9)
            moderatePart == Count(stats, 6) + Count(stats, 7)
            negativePart == Count(stats, 0) + Count(stats, 1) + Count(stats, 2)
                            + Count(stats, 3) + Count(stats, 4)
        IN  IF MeanAtLeast(stats, 45) /\ highPart * 100 >= 35 * total
            THEN [label |-> "Forest / Dense Vegetation",
                  confidence |-> Min(95, RoundShare(60, highPart, total, 6)),
                  reason |-> "High NDVI concentration indicates dense, healthy vegetation."]
            ELSE IF MeanAtLeast(stats, 25) /\ (highPart + moderatePart) * 100 >= 40 * total
            THEN [label |-> "Agriculture / Cropland",
                  confidence |-> Min(92, RoundShare(55, highPart + moderatePart, total, 5)),
                  reason |-> "Moderate-to-high NDVI suggests managed vegetation and crop cover."]
            ELSE IF MeanAtLeast(stats, 8)
            THEN [label |-> "Grassland / Shrubland", confidence |-> 72,
                  reason |-> "NDVI indicates sparse to medium vegetation cover."]
            ELSE IF MeanBelow(stats, 0 - 8) /\ negativePart * 100 > 55 * total
            THEN [label |-> "Water / Wet Surface", confidence |-> 78,
                  reason |-> "Predominantly negative NDVI values are typical of water or wet surfaces."]
            ELSE [label |-> "Barren / Built-up", confidence |-> 70,
                  reason |-> "Low NDVI indicates weak vegetation response, usually soil, built-up land, or dry surfaces."]

\* the classification written by the catch block of processSelectionNdvi
Unavailable ==
    [label |-> "Unavailable", confidence |-> 0,
     reason |-> "Unable to process NDVI for this area. Try SAT layer or a smaller selection."]

RuleLabels == {"Forest / Dense Vegetation", "Agriculture / Cropland",
               "Grassland / Shrubland", "Water / Wet Surface", "Barren / Built-up"}

----------------------------------------------------------------------------
(* AI verification collaborator *)

\* the report analyzeLandData resolves to when the model answered
ModelReport ==
    [suitabilityScore |-> 80, landUse |-> "Agricultural",
     cropRecommendations |-> <<"Wheat">>, risks |-> <<"Erosion">>,
     soilTypeEstimation |-> "Loam", summary |-> "Healthy cropland."]

\* the deterministic fallback report
FallbackReport ==
    [suitabilityScore |-> 0, landUse |-> "Error",
     cropRecommendations |-> << >>, risks |-> <<"Analysis Failed">>,
     soilTypeEstimation |-> "Unknown",
     summary |-> "Failed to generate analysis. Please check your API key and try again."]

\* what the remote model does with one request
AiOutcomes == {"answers", "fails"}

\* analyzeLandData(base64, locationPrompt, statsToUse), by the outcome of the
\* remote call
analyzeLandData(outcome) ==
    IF outcome = "answers" THEN ModelReport ELSE FallbackReport

----------------------------------------------------------------------------
(* The component's state *)

\* PRESETS[..].id, and the id handleFileUpload gives an uploaded parcel
UploadedPresetId == 999
PresetIds == {1, 2, 3, UploadedPresetId}

\* a run is held under its id
RunSlots == 1..MaxStarts
AnalysisSlots == 1..MaxAnalyses

\* a sampling run is in flight in slot r / an AI call in slot a
RunInFlight(r) == runs[r] # Null
AnalysisInFlight(a) == analyses[a] # Null
AnyRunInFlight == \E r \in RunSlots : RunInFlight(r)

\* the value of isProcessing that handleMapClick reads.  The handler is
\* registered once, by the mount effect (dependency list []), so it is the
\* closure of the first render, where isProcessing is useState's initial value.
HandlerIsProcessing == FALSE

MountedComponent ==
    /\ isProcessing = FALSE
    /\ result = Null
    /\ computedStats = Null
    /\ selectionStart = Null
    /\ selectionEnd = Null
    /\ selectedBounds = Null
    /\ landClassification = Null
    /\ processedImageRef = Null
    /\ runs = [r \in RunSlots |-> Null]
    /\ analyses = [a \in AnalysisSlots |-> Null]
    /\ nextRunId = 1
    /\ currentRun = 0
    /\ lastRun = Null
    /\ resultFrom = Null

Init == MountedComponent /\ arg = Null /\ ret = Null

ResetKeepsStats ==
    /\ selectionStart' = Null
    /\ selectionEnd' = Null
    /\ selectedBounds' = Null
    /\ UNCHANGED computedStats
    /\ landClassification' = Null
    /\ processedImageRef' = Null
    /\ currentRun' = 0
    /\ lastRun' = Null

\* the fields resetSelectionState writes
ResetSelectionFields ==
    /\ selectionStart' = Null
    /\ selectionEnd' = Null
    /\ selectedBounds' = Null
    /\ computedStats' = Null
    /\ landClassification' = Null
    /\ processedImageRef' = Null
    /\ currentRun' = 0
    /\ lastRun' = Null

\* the Clear Selection button
resetSelectionState ==
    /\ ResetSelectionFields
    /\ UNCHANGED <<isProcessing, result, resultFrom, runs, analyses, nextRunId>>

\* a Jump to Region button, or handleFileUpload with preset 999
loadPreset(preset) ==
    /\ result' = Null
    /\ resultFrom' = Null
    /\ ResetSelectionFields
    /\ UNCHANGED <<isProcessing, runs, analyses, nextRunId>>

\* the for-of loop over tileCoords: after `sampled` tiles, is there a next one
MoreTilesOffByOne(tileCoords, sampled) == sampled + 1 < Len(tileCoords)
MoreTiles(tileCoords, sampled) == sampled < Len(tileCoords)

RunCatchKeepsStats(id, total, sampled, thrown) ==
    /\ UNCHANGED computedStats
    /\ landClassification' = Unavailable
    /\ lastRun' = [run |-> id, total |-> total, sampled |-> sampled, outcome |-> thrown]
    /\ isProcessing' = FALSE

\* the catch block of processSelectionNdvi, followed by its finally block.
\* The run held id, had total tiles to sample and had sampled `sampled` of
\* them when `thrown` was thrown.
RunCatch(id, total, sampled, thrown) ==
    /\ computedStats' = Null
    /\ landClassification' = Unavailable
    /\ lastRun' = [run |-> id, total |-> total, sampled |-> sampled, outcome |-> thrown]
    /\ isProcessing' = FALSE

RunWriteNoFinally(id, total, sampled, ndviValues) ==
    \E values \in {ndviValues} : \E stats \in {calculateStats(values)} :
        /\ computedStats' = stats
        /\ landClassification' = classifyLandByNdvi(stats)
        /\ lastRun' = [run |-> id, total |-> total, sampled |-> sampled, outcome |-> "written"]
        /\ UNCHANGED isProcessing

\* lines 295-297 followed by the finally block
RunWrite(id, total, sampled, ndviValues) ==
    \E values \in {ndviValues} : \E stats \in {calculateStats(values)} :
        /\ computedStats' = stats
        /\ landClassification' = classifyLandByNdvi(stats)
        /\ lastRun' = [run |-> id, total |-> total, sampled |-> sampled, outcome |-> "written"]
        /\ isProcessing' = FALSE

\* processSelectionNdvi(bounds) up to its first await.  tileLayerRef and
\* mapInstanceRef are set while the component is mounted.
processSelectionNdvi(bounds) ==
    LET zoom == Max(6, Min(MapZoom, 16))
        allTiles == getTileCoordinatesForBounds(bounds, zoom)
        tileCoords == limitTilesForProcessing(allTiles)
    IN  /\ nextRunId <= MaxStarts
        /\ nextRunId' = nextRunId + 1
        /\ currentRun' = nextRunId
        /\ IF Len(tileCoords) = 0
           THEN RunCatch(nextRunId, 0, 0, "No imagery tiles found") /\ UNCHANGED runs
           ELSE /\ isProcessing' = TRUE
                /\ computedStats' = Null
                /\ landClassification' = Null
                /\ lastRun' = Null
                /\ runs' = [runs EXCEPT ![nextRunId] =
                              [id |-> nextRunId, bounds |-> bounds,
                               tileCoords |-> tileCoords, idx |-> 0,
                               ndviValues |-> << >>]]

handleMapClick(clickedPoint) ==
    /\ ~HandlerIsProcessing
    /\ result' = Null
    /\ resultFrom' = Null
    /\ IF selectionStart = Null \/ selectionEnd # Null
       THEN /\ selectionStart' = clickedPoint
            /\ selectionEnd' = Null
            /\ selectedBounds' = Null
            /\ computedStats' = Null
            /\ landClassification' = Null
            /\ currentRun' = 0
            /\ lastRun' = Null
            /\ UNCHANGED <<isProcessing, runs, nextRunId>>
       ELSE LET bounds == LatLngBounds(selectionStart, clickedPoint)
            IN  /\ selectionEnd' = clickedPoint
                /\ selectedBounds' = toBoundsPayload(bounds)
                /\ processSelectionNdvi(bounds)
                /\ UNCHANGED selectionStart
    /\ UNCHANGED <<processedImageRef, analyses>>

\* loadImage resolved for the tile run r waits for: lines 287-288, then the
\* next iteration's await or the rest of the function.  hasContext is whether
\* canvas.getContext('2d') gave a context in extractNdviValuesFromImage.
TileLoaded(r, hasContext) ==
    /\ RunInFlight(r)
    /\ \E run \in {runs[r]} :
       \E coords \in {run.tileCoords[run.idx + 1]} :
       \E ndviValues \in
            {run.ndviValues \o (IF hasContext THEN TileValues(coords) ELSE << >>)} :
       LET sampled == run.idx + 1
       IN  /\ processedImageRef' = [tile |-> coords, run |-> run.id, idx |-> sampled]
           /\ IF MoreTiles(run.tileCoords, sampled)
              THEN /\ runs' = [runs EXCEPT ![r] =
                                 [run EXCEPT !.idx = sampled, !.ndviValues = ndviValues]]
                   /\ UNCHANGED <<isProcessing, computedStats, landClassification, lastRun>>
              ELSE /\ runs' = [runs EXCEPT ![r] = Null]
                   /\ IF Len(ndviValues) = 0
                      THEN RunCatch(run.id, Len(run.tileCoords), sampled, "No NDVI samples extracted")
                      ELSE RunWrite(run.id, Len(run.tileCoords), sampled, ndviValues)
    /\ UNCHANGED <<result, resultFrom, selectionStart, selectionEnd, selectedBounds,
                   analyses, nextRunId, currentRun>>

\* loadImage rejected (image.onerror) for the tile run r waits for
TileFailed(r) ==
    /\ RunInFlight(r)
    /\ runs' = [runs EXCEPT ![r] = Null]
    /\ RunCatch(runs[r].id, Len(runs[r].tileCoords), runs[r].idx, "image.onerror")
    /\ UNCHANGED <<result, resultFrom, selectionStart, selectionEnd, selectedBounds,
                   processedImageRef, analyses, nextRunId, currentRun>>

\* formatCoord and the template strings of locationPrompt
LocationPrompt ==
    IF selectedBounds # Null
    THEN [kind |-> "rectangle", northWest |-> selectedBounds.northWest,
          southEast |-> selectedBounds.southEast]
    ELSE [kind |-> "preset"]

\* the AI Verification button (disabled while isProcessing || !computedStats),
\* up to the await of analyzeLandData
handleAnalyze(a) ==
    /\ ~isProcessing /\ computedStats # Null
    /\ computedStats # Null /\ processedImageRef # Null
    /\ ~AnalysisInFlight(a)
    /\ \A b \in AnalysisSlots : ~AnalysisInFlight(b) => a <= b
    /\ isProcessing' = TRUE
    /\ analyses' = [analyses EXCEPT ![a] =
                      [statsToUse |-> computedStats, locationPrompt |-> LocationPrompt,
                       image |-> processedImageRef]]
    /\ UNCHANGED <<result, resultFrom, computedStats, selectionStart, selectionEnd,
                   selectedBounds, landClassification, processedImageRef, runs,
                   nextRunId, currentRun, lastRun>>

\* analyzeLandData resolved: setResult(analysis), then the finally block
AnalyzeReturned(a, outcome) ==
    /\ AnalysisInFlight(a)
    /\ result' = analyzeLandData(outcome)
    /\ resultFrom' = analyses[a]
    /\ isProcessing' = FALSE
    /\ analyses' = [analyses EXCEPT ![a] = Null]
    /\ UNCHANGED <<computedStats, selectionStart, selectionEnd, selectedBounds,
                   landClassification, processedImageRef, runs,
                   nextRunId, currentRun, lastRun>>

\* the tasks of the component; none touches the pure-function harness
Click == (\E clickedPoint \in Points : handleMapClick(clickedPoint)) /\ UNCHANGED harness
ClearSelection == resetSelectionState /\ UNCHANGED harness
LoadPreset == (\E preset \in PresetIds : loadPreset(preset)) /\ UNCHANGED harness
TileLoads ==
    (\E r \in RunSlots, hasContext \in BOOLEAN : TileLoaded(r, hasContext))
    /\ UNCHANGED harness
TileFails == (\E r \in RunSlots : TileFailed(r)) /\ UNCHANGED harness
Analyze == (\E a \in AnalysisSlots : handleAnalyze(a)) /\ UNCHANGED harness
AnalyzeReturns ==
    (\E a \in AnalysisSlots, outcome \in AiOutcomes : AnalyzeReturned(a, outcome))
    /\ UNCHANGED harness

Next ==
    \/ Click
    \/ ClearSelection
    \/ LoadPreset
    \/ TileLoads
    \/ TileFails
    \/ Analyze
    \/ AnalyzeReturns

Spec == Init /\ [][Next]_vars

\* every pending loadImage eventually resolves or rejects
RunStep(r) ==
    (TileFailed(r) \/ (\E hasContext \in BOOLEAN : TileLoaded(r, hasContext)))
    /\ UNCHANGED harness
FairSpec == Spec /\ \A r \in RunSlots : WF_vars(RunStep(r))

----------------------------------------------------------------------------
(* The sampling limiter applied to one tile list *)

\* the tile lists getTileCoordinatesForBounds produces for grids of w x h
\* tiles (w = 0: the empty list)
LimiterInputs ==
    {TileGrid(xMin, xMin + w - 1, 0, h - 1, MapZoom) :
        xMin \in 0..1, w \in 0..MaxGridW, h \in 1..MaxGridH}

InitLimiter == MountedComponent /\ arg \in LimiterInputs /\ ret = Null

ApplyLimiter ==
    /\ ret = Null
    /\ ret' = [value |-> limitTilesForProcessing(arg)]
    /\ UNCHANGED <<arg, component>>

SpecLimiter == InitLimiter /\ [][ApplyLimiter]_vars

----------------------------------------------------------------------------
(* The tile enumerator applied to one projected rectangle *)

\* pixel coordinates at, just before and just after the edges of the tiles
\* 0..MaxTile
PixelCoords ==
    {p \in UNION {{t * TileSize - 1, t * TileSize, t * TileSize + 1} : t \in 0..MaxTile} :
        p >= 0}

\* the projected corners of a rectangle, in either order
TileInputs ==
    {[nwPoint |-> [x |-> x1, y |-> y1], sePoint |-> [x |-> x2, y |-> y2],
      tileSize |-> [x |-> TileSize, y |-> TileSize], zoom |-> MapZoom] :
        x1 \in PixelCoords, y1 \in PixelCoords, x2 \in PixelCoords, y2 \in PixelCoords}

InitTiles == MountedComponent /\ arg \in TileInputs /\ ret = Null

ApplyTiles ==
    /\ ret = Null
    /\ ret' = [value |-> TilesForPoints(arg.nwPoint, arg.sePoint, arg.tileSize, arg.zoom)]
    /\ UNCHANGED <<arg, component>>

SpecTiles == InitTiles /\ [][ApplyTiles]_vars

----------------------------------------------------------------------------
(* The statistics aggregator applied to one sequence of proxy values *)

\* every scaled value in [-1, 1]
ProxyValues == (0 - ValueScale)..ValueScale

\* the value sequences of up to MaxSamples samples
StatsInputs == UNION {[1..n -> ProxyValues] : n \in 0..MaxSamples}

InitStats == MountedComponent /\ arg \in StatsInputs /\ ret = Null

ApplyStats ==
    /\ ret = Null
    /\ ret' = [value |-> calculateStats(arg)]
    /\ UNCHANGED <<arg, component>>

SpecStats == InitStats /\ [][ApplyStats]_vars

----------------------------------------------------------------------------
(* The land classifier applied to one Statistics value *)

\* the sample sequences of up to MaxMix values that hold k times one value
\* and then another value (none, for length 0)
SampleMixes ==
    UNION {{[i \in 1..n |-> IF i <= k THEN a ELSE b] :
              k \in 1..n, a \in ProxyValues, b \in ProxyValues} : n \in 1..MaxMix}
    \cup {<< >>}

\* the input is the Statistics value calculateStats returns for one of them
InitClassifier ==
    /\ MountedComponent
    /\ \E values \in SampleMixes : arg = calculateStats(values)
    /\ ret = Null

ApplyClassifier ==
    /\ ret = Null
    /\ ret' = [value |-> classifyLandByNdvi(arg)]
    /\ UNCHANGED <<arg, component>>

SpecClassifier == InitClassifier /\ [][ApplyClassifier]_vars

----------------------------------------------------------------------------
(* The AI service applied to one response of the remote model *)

\* suitabilityScore (0-100 number)
MaxScore == 100

\* the reports the remote model may encode in its answer
AiReports ==
    {[ModelReport EXCEPT !.suitabilityScore = score, !.landUse = landUse] :
        score \in 0..MaxScore, landUse \in {"Agricultural", "Urban", "Forest"}}

\* what ai.models.generateContent does: it rejects, or it resolves to a
\* response whose text is missing or empty, is not JSON, or is the JSON
\* text of a report
AiResponses ==
    {[kind |-> "rejects"], [kind |-> "resolves", text |-> Null],
     [kind |-> "resolves", text |-> [json |-> FALSE]]}
    \cup {[kind |-> "resolves", text |-> [json |-> TRUE, encodes |-> report]] :
            report \in AiReports}

\* JSON.parse(text): the encoded value, or a SyntaxError
JsonParse(text) ==
    IF text.json THEN [value |-> text.encodes] ELSE [throws |-> "SyntaxError"]

\* analyzeLandImage(base64Image, promptText), by the response of the remote
\* model: the value the returned promise resolves to
analyzeLandImage(response) ==
    IF response.kind = "rejects" THEN FallbackReport
    ELSE IF response.text = Null THEN Null
    ELSE LET parsed == JsonParse(response.text)
         IN  IF "throws" \in DOMAIN parsed THEN FallbackReport ELSE parsed.value

InitService == MountedComponent /\ arg \in AiResponses /\ ret = Null

ApplyService ==
    /\ ret = Null
    /\ ret' = [value |-> analyzeLandImage(arg)]
    /\ UNCHANGED <<arg, component>>

SpecService == InitService /\ [][ApplyService]_vars

----------------------------------------------------------------------------
(* Properties *)

\* the three states of the selection state machine
Idle == selectionStart = Null /\ selectionEnd = Null /\ selectedBounds = Null
CornerPicked == selectionStart # Null /\ selectionEnd = Null /\ selectedBounds = Null
Complete == selectionStart # Null /\ selectionEnd # Null /\ selectedBounds # Null

OutputsCleared == computedStats = Null /\ landClassification = Null
RunsInFlight == {r \in RunSlots : RunInFlight(r)}

\* C1: a map click that arrives while a sampling run is in flight changes
\* none of selectionStart, selectionEnd, selectedBounds, computedStats,
\* landClassification and result, and starts no run.
C1_ClickInFlightIgnored ==
    [][(AnyRunInFlight /\ Click) =>
          /\ UNCHANGED <<selectionStart, selectionEnd, selectedBounds,
                         computedStats, landClassification, result>>
          /\ nextRunId' = nextRunId]_vars

\* C2: while a selection is being made or is complete, displayed statistics
\* and a displayed classification were written by the run started for the
\* current selectedBounds, never by an earlier run.
C2_OutputsFromCurrentRun ==
    (selectionStart # Null /\ ~OutputsCleared)
        => (lastRun # Null /\ lastRun.run = currentRun)

\* C3: at most one sampling run is in flight.
C3_AtMostOneRun == Cardinality(RunsInFlight) <= 1

\* C4: Clear Selection returns the selection to Idle from any state, and
\* after it the statistics and the classification stay null until a later
\* selection is completed, also when a run started before it finishes later.
C4_ClearCancels ==
    /\ [][resetSelectionState => Idle']_vars
    /\ [](Idle => OutputsCleared)

\* C5: from Idle a click picks the first corner and starts no run; the next
\* click completes the normalized rectangle and starts exactly one run; a
\* click on a complete selection picks a new first corner and clears result,
\* statistics and classification, which stay cleared until a rectangle is
\* completed again.
C5_TwoClicksThenFresh ==
    /\ [][\A p \in Points : (Idle /\ handleMapClick(p)) =>
            (CornerPicked' /\ selectionStart' = p /\ nextRunId' = nextRunId)]_vars
    /\ [][\A p \in Points : (CornerPicked /\ handleMapClick(p)) =>
            /\ Complete'
            /\ selectedBounds'.northWest =
                  <<Max(selectionStart[1], p[1]), Min(selectionStart[2], p[2])>>
            /\ selectedBounds'.southEast =
                  <<Min(selectionStart[1], p[1]), Max(selectionStart[2], p[2])>>
            /\ nextRunId' = nextRunId + 1]_vars
    /\ [][\A p \in Points : (Complete /\ handleMapClick(p)) =>
            (CornerPicked' /\ selectionStart' = p /\ result' = Null /\ OutputsCleared')]_vars
    /\ [](CornerPicked => (result = Null /\ OutputsCleared))

\* C6: when the load of a tile fails, the run ends at once with the
\* classification 'Unavailable' (confidence 0, a reason) and no statistics.
C6_TileFailureAborts ==
    [][\A r \in RunSlots : TileFailed(r) =>
          /\ ~RunInFlight(r)'
          /\ computedStats' = Null
          /\ landClassification'.label = "Unavailable"
          /\ landClassification'.confidence = 0
          /\ landClassification'.reason # ""]_vars

C6_Witness ==
    /\ lastRun # Null
    /\ lastRun.outcome = "image.onerror"
    /\ lastRun.sampled >= 1
    /\ landClassification = Unavailable
    /\ computedStats = Null

\* C7: displayed statistics and a displayed rule-based classification were
\* written by a run that had loaded and sampled every tile of its list.
C7_OnlyCompleteRunsWrite ==
    (computedStats # Null
       \/ (landClassification # Null /\ landClassification.label \in RuleLabels))
        => (lastRun # Null /\ lastRun.outcome = "written"
            /\ lastRun.sampled = lastRun.total)

C7_Witness == computedStats # Null /\ lastRun # Null /\ lastRun.total >= 2

\* C8: a run in flight eventually ends, and the step that ends it leaves
\* isProcessing false and a classification that is one of the five rule
\* labels or 'Unavailable'.
C8_RunsFinish ==
    /\ \A r \in RunSlots : RunInFlight(r) ~> ~RunInFlight(r)
    /\ [][\A r \in RunSlots : (RunInFlight(r) /\ ~RunInFlight(r)') =>
            /\ isProcessing' = FALSE
            /\ landClassification' # Null
            /\ landClassification'.label \in RuleLabels \cup {"Unavailable"}]_vars

C8_Witness ==
    /\ lastRun # Null
    /\ lastRun.outcome = "No NDVI samples extracted"
    /\ ~isProcessing
    /\ landClassification = Unavailable

\* a report with every field of the AI collaborator's interface
WellFormedReport(report) ==
    /\ report # Null
    /\ DOMAIN report = {"suitabilityScore", "landUse", "cropRecommendations",
                        "risks", "soilTypeEstimation", "summary"}
    /\ report.suitabilityScore \in 0..100

\* the AI verification call failed: no report came back
AiCallFailed(response) ==
    \/ response.kind = "rejects"
    \/ response.text = Null
    \/ ~response.text.json

\* C9: when the AI verification call fails the caller receives the fallback
\* report (suitabilityScore 0, landUse 'Error', risks ['Analysis Failed']),
\* and the call never yields a value that is not a well-formed report.
C9_FallbackOnFailure ==
    ret # Null =>
        /\ WellFormedReport(ret.value)
        /\ AiCallFailed(arg) =>
              /\ ret.value.suitabilityScore = 0
              /\ ret.value.landUse = "Error"
              /\ ret.value.risks = <<"Analysis Failed">>

\* the position of tile e in the list s
PosIn(s, e) == CHOOSE k \in 1..Len(s) : s[k] = e

\* C10: the limiter returns at most 12 tiles, in the order of the input; a
\* list of at most 12 tiles unchanged; of a longer list exactly the tiles at
\* indices 0, stride, 2 * stride, ... with stride = ceil(length / 12).
C10_LimiterContract ==
    ret # Null =>
        LET n == Len(arg)
            out == ret.value
            stride == (n + 11) \div 12
        IN  /\ Len(out) <= 12
            /\ \A j \in 1..Len(out) : \E k \in 1..n : arg[k] = out[j]
            /\ \A i, j \in 1..Len(out) : i < j => PosIn(arg, out[i]) < PosIn(arg, out[j])
            /\ n <= 12 => out = arg
            /\ n > 12 =>
                  /\ Len(out) = Min(12, (n + stride - 1) \div stride)
                  /\ \A j \in 1..Len(out) : out[j] = arg[(j - 1) * stride + 1]

C10_Witness == ret # Null /\ Len(arg) > 24 /\ Len(ret.value) < 12

\* C12: calculateStats of the empty sequence returns min 0, max 0, mean 0,
\* stdDev 0 and a histogram of exactly ten buckets, each with count 0.
C12_EmptyStatsZeroed ==
    (ret # Null /\ Len(arg) = 0) =>
        /\ ret.value.min = 0
        /\ ret.value.max = 0
        /\ ret.value.mean = Zero
        /\ ret.value.stdDev = Zero
        /\ Len(ret.value.histogram) = 10
        /\ \A k \in 1..Len(ret.value.histogram) : ret.value.histogram[k].count = 0

\* the rearrangements of the sequence s
PermutationsOf(s) ==
    {[i \in 1..Len(s) |-> s[f[i]]] :
        f \in {g \in [1..Len(s) -> 1..Len(s)] :
                 \A i, j \in 1..Len(s) : g[i] = g[j] => i = j}}

\* C15: for a non-empty sequence calculateStats returns ten buckets whose
\* counts sum to the number of values, min <= mean <= max, stdDev >= 0, and
\* the same record for every permutation of the sequence.
C15_StatsInvariants ==
    (ret # Null /\ Len(arg) > 0) =>
        /\ Len(ret.value.histogram) = 10
        /\ CountsTo(ret.value.histogram, 10) = Len(arg)
        /\ FlLeq(Number(ret.value.min), ret.value.mean)
        /\ FlLeq(ret.value.mean, Number(ret.value.max))
        /\ ret.value.stdDev.num >= 0
        /\ \A values \in PermutationsOf(arg) : calculateStats(values) = ret.value

\* the number of samples of a Statistics value, and of those in buckets lo..hi
TotalCount(stats) == CountsTo(stats.histogram, 10)
BucketCount(stats, lo, hi) ==
    CountsTo(stats.histogram, hi + 1) - CountsTo(stats.histogram, lo)

\* num / den rounded to the nearest integer, halves up (num >= 0, den > 0)
RoundHalfUp(num, den) == (2 * num + den) \div (2 * den)

\* rule 1 matches: mean >= 0.45 and the share of buckets 7-9 is >= 35%
Rule1Matches(stats) ==
    /\ stats.mean.num * 100 >= 45 * ValueScale * stats.mean.den
    /\ BucketCount(stats, 7, 9) * 100 >= 35 * TotalCount(stats)

\* the condition of rule 2: mean >= 0.25 and the share of buckets 6-9 is >= 40%
Rule2Condition(stats) ==
    /\ stats.mean.num * 100 >= 25 * ValueScale * stats.mean.den
    /\ BucketCount(stats, 6, 9) * 100 >= 40 * TotalCount(stats)

\* C11: a Statistics value that rule 1 does not match is labelled
\* 'Agriculture / Cropland' exactly when mean >= 0.25 and the share of
\* buckets 6-9, each counted once, is >= 40%; the confidence is then
\* min(92, round(55 + share * 0.5)).
C11_CroplandRule ==
    (ret # Null /\ Len(arg.histogram) = 10 /\ ~Rule1Matches(arg)) =>
        /\ (ret.value.label = "Agriculture / Cropland") <=> Rule2Condition(arg)
        /\ ret.value.label = "Agriculture / Cropland" =>
              ret.value.confidence =
                 Min(92, RoundHalfUp(55 * TotalCount(arg) + 50 * BucketCount(arg, 6, 9),
                                     TotalCount(arg)))

\* C13: the classifier applied to the statistics of the empty sequence
\* returns 'Barren / Built-up' with confidence 70.
C13_EmptyStatsBarren ==
    (ret # Null /\ arg = calculateStats(<< >>)) =>
        /\ ret.value # Null
        /\ ret.value.label = "Barren / Built-up"
        /\ ret.value.confidence = 70

\* C14: a Statistics value with mean >= 0.45 and a share of buckets 7-9 of
\* at least 35% is labelled 'Forest / Dense Vegetation' with confidence
\* min(95, round(60 + share * 0.6)), also when later rules match; for a
\* non-empty histogram the confidence is an integer in 0..100 and the label
\* one of the five rule labels.
C14_FirstMatchWins ==
    (ret # Null /\ Len(arg.histogram) = 10) =>
        /\ Rule1Matches(arg) =>
              /\ ret.value.label = "Forest / Dense Vegetation"
              /\ ret.value.confidence =
                    Min(95, RoundHalfUp(60 * TotalCount(arg) + 60 * BucketCount(arg, 7, 9),
                                        TotalCount(arg)))
        /\ ret.value.confidence \in 0..100
        /\ ret.value.label \in RuleLabels

\* rule 1 wins over rule 2, with a confidence below the cap that rounding decides
C14_Witness ==
    /\ ret # Null /\ Len(arg.histogram) = 10
    /\ Rule1Matches(arg) /\ Rule2Condition(arg)
    /\ ret.value.label = "Forest / Dense Vegetation"
    /\ ret.value.confidence < 95
    /\ (60 * BucketCount(arg, 7, 9)) % TotalCount(arg) # 0

\* the tile column or row that holds pixel coordinate p
TileOf(p, size) == CHOOSE t \in 0..(MaxTile + 1) : t * size <= p /\ p < (t + 1) * size

\* C16: the tile enumerator returns exactly the cross product of the
\* columns xMin..xMax and the rows yMin..yMax, each tile once and at zoom
\* z, where the limits are the tiles of the smaller and of the larger pixel
\* coordinate; every pixel of the rectangle lies in a returned tile, and two
\* corners in one tile give exactly that tile.
C16_TileCrossProduct ==
    ret # Null =>
        LET out == ret.value
            xLo == Min(arg.nwPoint.x, arg.sePoint.x)
            xHi == Max(arg.nwPoint.x, arg.sePoint.x)
            yLo == Min(arg.nwPoint.y, arg.sePoint.y)
            yHi == Max(arg.nwPoint.y, arg.sePoint.y)
            xMin == TileOf(xLo, arg.tileSize.x)
            xMax == TileOf(xHi, arg.tileSize.x)
            yMin == TileOf(yLo, arg.tileSize.y)
            yMax == TileOf(yHi, arg.tileSize.y)
        IN  /\ \A i \in 1..Len(out) :
                  out[i].x \in xMin..xMax /\ out[i].y \in yMin..yMax /\ out[i].z = arg.zoom
            /\ \A x \in xMin..xMax, y \in yMin..yMax :
                  Cardinality({i \in 1..Len(out) : out[i].x = x /\ out[i].y = y}) = 1
            /\ \A px \in {p \in PixelCoords : xLo <= p /\ p <= xHi},
                   py \in {p \in PixelCoords : yLo <= p /\ p <= yHi} :
                  \E i \in 1..Len(out) :
                      out[i].x = TileOf(px, arg.tileSize.x) /\ out[i].y = TileOf(py, arg.tileSize.y)
            /\ (xMin = xMax /\ yMin = yMax) =>
                  out = <<[x |-> xMin, y |-> yMin, z |-> arg.zoom]>>

C16_Witness ==
    /\ ret # Null
    /\ Len(ret.value) = 6
    /\ arg.nwPoint.x > arg.sePoint.x
    /\ arg.nwPoint.y < arg.sePoint.y

\* C17: displayed statistics come with the rule-based classification of
\* exactly those statistics, and the classification 'Unavailable' comes
\* with no statistics.
C17_OutputsConsistent ==
    /\ computedStats # Null =>
          /\ landClassification # Null
          /\ landClassification.label \in RuleLabels
          /\ landClassification = classifyLandByNdvi(computedStats)
    /\ (landClassification # Null /\ landClassification.label = "Unavailable") =>
          computedStats = Null

\* statistics written by a run that is not the run of the current selection,
\* while another run is in flight
C17_Witness ==
    /\ computedStats # Null
    /\ landClassification.label \in RuleLabels
    /\ lastRun.run # currentRun
    /\ AnyRunInFlight

\* C18: a displayed AI report belongs to the current completed selection:
\* selectedBounds and computedStats are set and are the bounds and the
\* statistics that were passed to the AI call that returned the report.
C18_ReportOfCurrentSelection ==
    result # Null =>
        /\ selectedBounds # Null
        /\ computedStats # Null
        /\ resultFrom # Null
        /\ resultFrom.statsToUse = computedStats
        /\ resultFrom.locationPrompt = LocationPrompt

\* C19: whenever handleAnalyze sends data to the AI collaborator, the image
\* it sends is the last tile loaded by the run that wrote the statistics it
\* sends.
C19_ImageOfStatsRun ==
    [][\A a \in AnalysisSlots : handleAnalyze(a) =>
          /\ lastRun # Null
          /\ processedImageRef.run = lastRun.run
          /\ processedImageRef.idx = lastRun.total]_vars

\* C20: the selection fields encode Idle, CornerPicked or Complete, and
\* selectedBounds, when set, is the normalized rectangle of the two clicked
\* points whatever their order.
C20_SelectionWellFormed ==
    /\ Idle \/ CornerPicked \/ Complete
    /\ selectedBounds # Null =>
          /\ selectedBounds.northWest =
                <<Max(selectionStart[1], selectionEnd[1]), Min(selectionStart[2], selectionEnd[2])>>
          /\ selectedBounds.southEast =
                <<Min(selectionStart[1], selectionEnd[1]), Max(selectionStart[2], selectionEnd[2])>>

\* a rectangle whose first click is its south-east corner
C20_Witness ==
    /\ Complete
    /\ selectionStart[1] < selectionEnd[1]
    /\ selectionStart[2] > selectionEnd[2]

====
